---- MODULE Spec2Model ----
(***************************************************************************)
(* Model of the kaniko-ecr plugin entry point (cmd/kaniko-ecr/main.go):    *)
(* run() prepares the docker credential document, optionally creates the   *)
(* ECR repository, uploads the configured policies and then hands the      *)
(* build over to kaniko.Plugin.Exec.                                       *)
(*                                                                         *)
(* mode = "run" follows one execution of run(); the other modes call one   *)
(* of the package's functions directly, repeatedly, on the same arguments, *)
(* the way a test of package main does.                                    *)
(***************************************************************************)
EXTENDS Integers, Sequences, FiniteSets, TLC

VARIABLES
    mode,         \* "run", or the name of the function called directly
    c,            \* the cli.Context: flag values and the set of flags that are set
    pc,           \* position inside run(): the next step, or "exited"
    exitCode,     \* the process exit code, meaningful once pc = "exited"
    dockerConfig, \* run()'s local dockerConfig (nil before createDockerConfig returns)
    env,          \* the process environment: set of <<name, value>>
    file,         \* content of dockerConfigPath
    fileWrites,   \* number of completed writes of dockerConfigPath
    backend,      \* repositories that exist: set of <<api, repositoryName>>
    events,       \* history of function invocations, backend calls and plugin.Exec
    ret,          \* what the last function called returned
    execs,        \* the kaniko.Plugin values plugin.Exec was invoked on
    nCalls        \* direct calls made so far (modes other than "run")

vars == <<mode, c, pc, exitCode, dockerConfig, env, file, fileWrites,
          backend, events, ret, execs, nCalls>>

----------------------------------------------------------------------------
(* Bounds *)

\* number of direct calls of one function in the modes other than "run"
MaxCalls == 2

----------------------------------------------------------------------------
(* Constants of the program *)

accessKeyEnv == "AWS_ACCESS_KEY_ID"
secretKeyEnv == "AWS_SECRET_ACCESS_KEY"
dockerConfigPath == "/kaniko/.docker/config.json"
ecrPublicDomain == "public.ecr.aws"
defaultDigestFile == "/kaniko/digest-file"

\* docker.RegistryV1 of pkg/docker
RegistryV1 == "https://index.docker.io/v1/"

nil == "nil"

----------------------------------------------------------------------------
(* Inputs *)

Registries ==
    { "",
      "public.ecr.aws",
      "public.ecr.aws/myorg",
      "public.ecr",
      "public.ecr.awsx",
      "123.dkr.ecr.us-east-1.amazonaws.com" }

Repos == {"", "app"}

PolicyFlags == {"lifecycle-policy", "repository-policy"}

\* policy files on disk: path -> content
PolicyPath(flag) == IF flag = "lifecycle-policy" THEN "lifecycle.json" ELSE "repository.json"
FileContents(path) == IF path = "lifecycle.json" THEN "{rules}" ELSE "{Statement}"

Contexts ==
    { [ repo |-> repo, registry |-> registry, region |-> "us-east-1",
        noPush |-> noPush, createRepository |-> create,
        dockerUsername |-> user, dockerPassword |-> IF user = "" THEN "" ELSE "pw",
        accessKey |-> ak, secretKey |-> sk,
        lifecyclePolicy |-> IF "lifecycle-policy" \in set THEN PolicyPath("lifecycle-policy") ELSE "",
        repositoryPolicy |-> IF "repository-policy" \in set THEN PolicyPath("repository-policy") ELSE "",
        set |-> set ] :
        repo \in Repos, registry \in Registries, noPush \in BOOLEAN,
        create \in BOOLEAN, user \in {"", "user"},
        ak \in {"", "AKIA"}, sk \in {"", "secret"}, set \in SUBSET PolicyFlags }

\* IsSet that does not look at the flag's name
IsSet_any(name) == c.set # {}

\* c.IsSet(name)
IsSet(name) == name \in c.set

----------------------------------------------------------------------------
(* strings.HasPrefix *)

HasPrefix(s, prefix) ==
    Len(s) >= Len(prefix) /\ SubSeq(s, 1, Len(prefix)) = prefix

\* isRegistryPublic comparing the whole host
isRegistryPublic_exact(registry) == registry = ecrPublicDomain

isRegistryPublic(registry) == HasPrefix(registry, ecrPublicDomain)

----------------------------------------------------------------------------
(* pkg/docker Config: host -> descriptor, as sets of pairs *)

NewConfig == [auths |-> {}, credHelpers |-> {}]

SetAuth(cfg, registry, username, password) ==
    [cfg EXCEPT !.auths =
        {a \in @ : a[1] # registry} \cup {<<registry, username, password>>}]

SetCredHelper(cfg, registry, helper) ==
    [cfg EXCEPT !.credHelpers =
        {h \in @ : h[1] # registry} \cup {<<registry, helper>>}]

\* json.Marshal(dockerConfig): the document's two objects
Marshal(cfg) == [auths |-> cfg.auths, credHelpers |-> cfg.credHelpers]

----------------------------------------------------------------------------
(* Events *)

Ev(op, api, repo, text) == [op |-> op, api |-> api, repo |-> repo, text |-> text]

Invoke(fn) == Ev(fn, "", "", "")

BackendOps == {"CreateRepository", "PutLifecyclePolicy", "SetRepositoryPolicy"}

----------------------------------------------------------------------------
(* Outcomes of the calls the program makes to its environment *)

\* os.Setenv
SetenvOutcomes == {nil, "EINVAL"}

\* config.LoadDefaultConfig
LoadDefaultConfigOutcomes == {nil, "no credential provider"}

\* errors returned by svc.CreateRepository: nil, a smithy.APIError with its
\* ErrorCode(), or an error that is no APIError (a failed transport, a timeout)
NoError == [kind |-> "nil", code |-> ""]
APIError(code) == [kind |-> "api", code |-> code]
OtherError == [kind |-> "other", code |-> ""]
\* no create call was made
NotCalled == [kind |-> "none", code |-> ""]

CreateRepositoryOutcomes(api, repo) ==
    IF <<api, repo>> \in backend
    THEN {APIError("RepositoryAlreadyExistsException"), APIError("ServerException"), OtherError}
    ELSE IF repo = ""
    THEN {APIError("InvalidParameterException"), OtherError}
    ELSE {NoError, APIError("LimitExceededException"), OtherError}

\* the repositories after svc.CreateRepository returned createErr
CreateRepositoryEffect(api, repo, createErr) ==
    IF createErr = NoError THEN backend \cup {<<api, repo>>} ELSE backend

\* errors returned by svc.PutLifecyclePolicy and svc.SetRepositoryPolicy
SetPolicyOutcomes(api, repo) ==
    IF <<api, repo>> \in backend
    THEN {nil, "ServerException"}
    ELSE {"RepositoryNotFoundException"}

\* ioutil.ReadFile of a policy file: its content, or an error
ReadFileOutcomes(path) == {[err |-> nil, contents |-> FileContents(path)],
                           [err |-> "ENOENT", contents |-> ""]}

\* json.Marshal followed by ioutil.WriteFile(dockerConfigPath, ...)
WriteOutcomes == {"ok", "marshal error", "write error"}

\* kaniko.Plugin.Exec
ExecOutcomes == {nil, "kaniko failed"}

----------------------------------------------------------------------------
(* createDockerConfig *)

\* AuthNeeded without its condition
AuthNeeded_always(noPush, accessKey) == TRUE

\* AuthNeeded without the access-key alternative
AuthNeeded_pushOnly(noPush, accessKey) == ~noPush

\* only setup auth when pushing or credentials are defined
AuthNeeded(noPush, accessKey) == ~noPush \/ accessKey # ""

\* ExportKeys satisfied by either key
ExportKeys_either(accessKey, secretKey) == accessKey # "" \/ secretKey # ""

\* If IAM role is used, access key & secret key are not required
ExportKeys(accessKey, secretKey) == accessKey # "" /\ secretKey # ""

Setenv(e, name, value) == {v \in e : v[1] # name} \cup {<<name, value>>}

Return(fn, err, val) == [fn |-> fn, err |-> err, val |-> val]

\* WithCredHelpers binding only the target registry
WithCredHelpers_registryOnly(cfg, registry) == SetCredHelper(cfg, registry, "ecr-login")

WithCredHelpers(cfg, registry) ==
    SetCredHelper(SetCredHelper(cfg, ecrPublicDomain, "ecr-login"), registry, "ecr-login")

createDockerConfig(dockerUsername, dockerPassword, accessKey, secretKey, registry, noPush) ==
    LET fn == "createDockerConfig"
        cfg0 == IF dockerUsername # ""
                THEN SetAuth(NewConfig, RegistryV1, dockerUsername, dockerPassword)
                ELSE NewConfig
    IN  /\ events' = Append(events, Invoke(fn))
        /\ UNCHANGED backend
        /\ IF AuthNeeded(noPush, accessKey)
           THEN IF registry = ""
                THEN /\ ret' = Return(fn, "registry must be specified", nil)
                     /\ UNCHANGED env
                ELSE IF ExportKeys(accessKey, secretKey)
                THEN \E e1 \in SetenvOutcomes :
                       IF e1 # nil
                       THEN /\ ret' = Return(fn, "failed to set AWS_ACCESS_KEY_ID environment variable", nil)
                            /\ UNCHANGED env
                       ELSE \E e2 \in SetenvOutcomes :
                              IF e2 # nil
                              THEN /\ ret' = Return(fn, "failed to set AWS_SECRET_ACCESS_KEY environment variable", nil)
                                   /\ env' = Setenv(env, accessKeyEnv, accessKey)
                              ELSE /\ ret' = Return(fn, nil, WithCredHelpers(cfg0, registry))
                                   /\ env' = Setenv(Setenv(env, accessKeyEnv, accessKey),
                                                    secretKeyEnv, secretKey)
                ELSE /\ ret' = Return(fn, nil, WithCredHelpers(cfg0, registry))
                     /\ UNCHANGED env
           ELSE /\ ret' = Return(fn, nil, cfg0)
                /\ UNCHANGED env

----------------------------------------------------------------------------
(* createRepository *)

Api(public) == IF public THEN "public" ELSE "private"

\* errors.As(createErr, &apiError)
IsAPIError(err) == err.kind = "api"

\* the error createRepository returns for the create call's createErr
CreateRepositoryResult(createErr) ==
    IF IsAPIError(createErr) /\ createErr.code # "RepositoryAlreadyExistsException"
    THEN "failed to create repository"
    ELSE nil

createRepository(region, repo, registry) ==
    LET fn == "createRepository" IN
    /\ UNCHANGED env
    /\ IF registry = ""
       THEN /\ ret' = Return(fn, "registry must be specified", NotCalled)
            /\ events' = Append(events, Invoke(fn))
            /\ UNCHANGED backend
       ELSE IF repo = ""
       THEN /\ ret' = Return(fn, "repo must be specified", NotCalled)
            /\ events' = Append(events, Invoke(fn))
            /\ UNCHANGED backend
       ELSE \E cfgErr \in LoadDefaultConfigOutcomes :
              IF cfgErr # nil
              THEN /\ ret' = Return(fn, "failed to load aws config", NotCalled)
                   /\ events' = events \o <<Invoke(fn), Ev("LoadDefaultConfig", "", "", region)>>
                   /\ UNCHANGED backend
              ELSE LET api == Api(isRegistryPublic(registry)) IN
                   \E createErr \in CreateRepositoryOutcomes(api, repo) :
                     /\ events' = events \o <<Invoke(fn), Ev("LoadDefaultConfig", "", "", region),
                                              Ev("CreateRepository", api, repo, "")>>
                     /\ backend' = CreateRepositoryEffect(api, repo, createErr)
                     /\ ret' = Return(fn, CreateRepositoryResult(createErr), createErr)

----------------------------------------------------------------------------
(* uploadLifeCyclePolicy, uploadRepositoryPolicy *)

\* the backend uploadLifeCyclePolicy talks to: always ecr.NewFromConfig
LifeCyclePolicyApi == "private"

\* RepositoryPolicyApi without the public branch
RepositoryPolicyApi_private(registry) == "private"

\* the backend uploadRepositoryPolicy talks to
RepositoryPolicyApi(registry) == Api(isRegistryPublic(registry))

SetPolicy(fn, op, api, region, repo, text) ==
    /\ UNCHANGED <<env, backend>>
    /\ \E cfgErr \in LoadDefaultConfigOutcomes :
         IF cfgErr # nil
         THEN /\ ret' = Return(fn, "failed to load aws config", nil)
              /\ events' = events \o <<Invoke(fn), Ev("LoadDefaultConfig", "", "", region)>>
         ELSE \E err \in SetPolicyOutcomes(api, repo) :
                /\ ret' = Return(fn, err, nil)
                /\ events' = events \o <<Invoke(fn), Ev("LoadDefaultConfig", "", "", region),
                                         Ev(op, api, repo, text)>>

uploadLifeCyclePolicy(region, repo, lifecyclePolicy) ==
    SetPolicy("uploadLifeCyclePolicy", "PutLifecyclePolicy", LifeCyclePolicyApi,
              region, repo, lifecyclePolicy)

uploadRepositoryPolicy(region, repo, registry, repositoryPolicy) ==
    SetPolicy("uploadRepositoryPolicy", "SetRepositoryPolicy", RepositoryPolicyApi(registry),
              region, repo, repositoryPolicy)

----------------------------------------------------------------------------
(* run *)

\* dockerConfigPath before the run: absent, or a document left by an earlier run
AbsentFile == [state |-> "absent", auths |-> {}, credHelpers |-> {}]
PriorFile == [state |-> "prior", auths |-> {},
              credHelpers |-> {<<"old.registry", "old-helper">>}]
TruncatedFile == [state |-> "truncated", auths |-> {}, credHelpers |-> {}]
\* WrittenFile that keeps the bindings the document held before
WrittenFile_merge(cfg) == [state |-> "written", auths |-> Marshal(cfg).auths \cup file.auths,
                           credHelpers |-> Marshal(cfg).credHelpers \cup file.credHelpers]

WrittenFile(cfg) == [state |-> "written", auths |-> Marshal(cfg).auths,
                     credHelpers |-> Marshal(cfg).credHelpers]

\* ioutil.WriteFile truncates the file when it opens it
WriteFileResults(outcome, cfg) ==
    IF outcome = "ok" THEN {WrittenFile(cfg)}
    ELSE IF outcome = "write error" THEN {file, TruncatedFile}
    ELSE {file}

\* main: app.Run's error goes to logrus.Fatal, which exits with status 1
ExitCode(err) == IF err # nil THEN 1 ELSE 0

Exit(err) == pc' = "exited" /\ exitCode' = ExitCode(err)

Goto(step) == pc' = step /\ UNCHANGED exitCode

\* CreateRepositoryGate without the push condition
CreateRepositoryGate_ignoresNoPush == c.createRepository

\* only create repository when pushing and create-repository is true
CreateRepositoryGate == ~c.noPush /\ c.createRepository

\* Plugin with the no-push flag dropped
Plugin_pushAlways ==
    [ Build |-> [ Repo |-> c.registry \o "/" \o c.repo,
                  NoPush |-> FALSE,
                  DigestFile |-> defaultDigestFile ],
      Artifact |-> [ Repo |-> c.repo, Registry |-> c.registry, RegistryType |-> "ECR" ] ]

\* the kaniko.Plugin run() builds
Plugin ==
    [ Build |-> [ Repo |-> c.registry \o "/" \o c.repo,
                  NoPush |-> c.noPush,
                  DigestFile |-> defaultDigestFile ],
      Artifact |-> [ Repo |-> c.repo, Registry |-> c.registry, RegistryType |-> "ECR" ] ]

RunCreateDockerConfig ==
    /\ mode = "run" /\ pc = "createDockerConfig"
    /\ createDockerConfig(c.dockerUsername, c.dockerPassword, c.accessKey,
                          c.secretKey, c.registry, c.noPush)
    /\ IF ret'.err # nil
       THEN Exit(ret'.err) /\ UNCHANGED dockerConfig
       ELSE Goto("writeConfig") /\ dockerConfig' = ret'.val
    /\ UNCHANGED <<mode, c, file, fileWrites, execs, nCalls>>

RunWriteConfig ==
    /\ mode = "run" /\ pc = "writeConfig"
    /\ \E outcome \in WriteOutcomes :
         /\ file' \in WriteFileResults(outcome, dockerConfig)
         /\ IF outcome = "ok"
            THEN /\ fileWrites' = fileWrites + 1
                 /\ events' = Append(events, Invoke("WriteFile"))
                 /\ ret' = Return("WriteFile", nil, nil)
                 /\ Goto("createRepository")
            ELSE /\ UNCHANGED <<fileWrites, events>>
                 /\ ret' = Return("WriteFile", outcome, nil)
                 /\ Exit(outcome)
    /\ UNCHANGED <<mode, c, dockerConfig, env, backend, execs, nCalls>>

RunCreateRepository ==
    /\ mode = "run" /\ pc = "createRepository"
    /\ IF CreateRepositoryGate
       THEN /\ createRepository(c.region, c.repo, c.registry)
            /\ IF ret'.err # nil THEN Exit(ret'.err) ELSE Goto("lifecyclePolicy")
       ELSE /\ Goto("lifecyclePolicy")
            /\ UNCHANGED <<env, backend, events, ret>>
    /\ UNCHANGED <<mode, c, dockerConfig, file, fileWrites, execs, nCalls>>

\* RunLifecyclePolicy with the upload's error logged instead of fatal
RunLifecyclePolicy_logOnly ==
    /\ mode = "run" /\ pc = "lifecyclePolicy"
    /\ IF IsSet("lifecycle-policy")
       THEN \E read \in ReadFileOutcomes(c.lifecyclePolicy) :
              IF read.err # nil
              THEN /\ Exit(read.err)
                   /\ ret' = Return("ReadFile", read.err, nil)
                   /\ UNCHANGED <<env, backend, events>>
              ELSE /\ uploadLifeCyclePolicy(c.region, c.repo, read.contents)
                   /\ Goto("repositoryPolicy")
       ELSE /\ Goto("repositoryPolicy")
            /\ UNCHANGED <<env, backend, events, ret>>
    /\ UNCHANGED <<mode, c, dockerConfig, file, fileWrites, execs, nCalls>>

RunLifecyclePolicy ==
    /\ mode = "run" /\ pc = "lifecyclePolicy"
    /\ IF IsSet("lifecycle-policy")
       THEN \E read \in ReadFileOutcomes(c.lifecyclePolicy) :
              IF read.err # nil
              THEN /\ Exit(read.err)
                   /\ ret' = Return("ReadFile", read.err, nil)
                   /\ UNCHANGED <<env, backend, events>>
              ELSE /\ uploadLifeCyclePolicy(c.region, c.repo, read.contents)
                   /\ IF ret'.err # nil THEN Exit(ret'.err) ELSE Goto("repositoryPolicy")
       ELSE /\ Goto("repositoryPolicy")
            /\ UNCHANGED <<env, backend, events, ret>>
    /\ UNCHANGED <<mode, c, dockerConfig, file, fileWrites, execs, nCalls>>

RunRepositoryPolicy ==
    /\ mode = "run" /\ pc = "repositoryPolicy"
    /\ IF IsSet("repository-policy")
       THEN \E read \in ReadFileOutcomes(c.repositoryPolicy) :
              IF read.err # nil
              THEN /\ Exit(read.err)
                   /\ ret' = Return("ReadFile", read.err, nil)
                   /\ UNCHANGED <<env, backend, events>>
              ELSE /\ uploadRepositoryPolicy(c.region, c.repo, c.registry, read.contents)
                   /\ IF ret'.err # nil THEN Exit(ret'.err) ELSE Goto("exec")
       ELSE /\ Goto("exec")
            /\ UNCHANGED <<env, backend, events, ret>>
    /\ UNCHANGED <<mode, c, dockerConfig, file, fileWrites, execs, nCalls>>

RunExec ==
    /\ mode = "run" /\ pc = "exec"
    /\ execs' = Append(execs, Plugin)
    /\ events' = Append(events, Invoke("plugin.Exec"))
    /\ \E err \in ExecOutcomes :
         /\ ret' = Return("plugin.Exec", err, nil)
         /\ Exit(err)
    /\ UNCHANGED <<mode, c, dockerConfig, env, file, fileWrites, backend, nCalls>>

----------------------------------------------------------------------------
(* Direct calls of the package's functions *)

Functions == {"createDockerConfig", "createRepository",
              "uploadLifeCyclePolicy", "uploadRepositoryPolicy"}

Direct(fn) ==
    /\ mode = fn /\ nCalls < MaxCalls
    /\ nCalls' = nCalls + 1
    /\ UNCHANGED <<mode, c, pc, exitCode, dockerConfig, file, fileWrites, execs>>

CallCreateDockerConfig ==
    /\ Direct("createDockerConfig")
    /\ createDockerConfig(c.dockerUsername, c.dockerPassword, c.accessKey,
                          c.secretKey, c.registry, c.noPush)

CallCreateRepository ==
    /\ Direct("createRepository")
    /\ createRepository(c.region, c.repo, c.registry)

CallUploadLifeCyclePolicy ==
    /\ Direct("uploadLifeCyclePolicy")
    /\ uploadLifeCyclePolicy(c.region, c.repo, FileContents(PolicyPath("lifecycle-policy")))

CallUploadRepositoryPolicy ==
    /\ Direct("uploadRepositoryPolicy")
    /\ uploadRepositoryPolicy(c.region, c.repo, c.registry,
                              FileContents(PolicyPath("repository-policy")))

----------------------------------------------------------------------------
(* Specification *)

Backends == SUBSET ({"public", "private"} \X {"app"})

\* the arguments a function called directly does not take are left at their defaults
Relevant(fn, ctx) ==
    /\ ctx.set = {} /\ ~ctx.createRepository
    /\ fn # "createDockerConfig" =>
         ctx.dockerUsername = "" /\ ctx.accessKey = "" /\ ctx.secretKey = "" /\ ~ctx.noPush

Init ==
    /\ mode \in {"run"} \cup Functions
    /\ c \in Contexts
    /\ mode # "run" => Relevant(mode, c)
    /\ pc = IF mode = "run" THEN "createDockerConfig" ELSE "direct"
    /\ exitCode = 0
    /\ dockerConfig = nil
    /\ env = {}
    /\ file \in IF mode = "run" THEN {AbsentFile, PriorFile} ELSE {AbsentFile}
    /\ fileWrites = 0
    /\ backend \in Backends
    /\ events = <<>>
    /\ ret = Return("", nil, nil)
    /\ execs = <<>>
    /\ nCalls = 0

Next ==
    \/ RunCreateDockerConfig
    \/ RunWriteConfig
    \/ RunCreateRepository
    \/ RunLifecyclePolicy
    \/ RunRepositoryPolicy
    \/ RunExec
    \/ CallCreateDockerConfig
    \/ CallCreateRepository
    \/ CallUploadLifeCyclePolicy
    \/ CallUploadRepositoryPolicy

Spec == Init /\ [][Next]_vars

----------------------------------------------------------------------------
(* Properties *)

EventsWith(op) == {i \in DOMAIN events : events[i].op = op}

Count(op) == Cardinality(EventsWith(op))

\* host is the public-registry domain or continues it
PrefixedByPublicDomain(host) ==
    \E k \in 0..Len(host) : SubSeq(host, 1, k) = "public.ecr.aws"

ExpectedApi(host) == IF PrefixedByPublicDomain(host) THEN "public" ELSE "private"

BootstrapSteps == {"createDockerConfig", "WriteFile", "createRepository", "ReadFile",
                   "uploadLifeCyclePolicy", "uploadRepositoryPolicy"}

C2_OnlyAlreadyExistsTolerated ==
    (ret.fn = "createRepository" /\ ret.val.kind # "none") =>
        (ret.err = nil <=>
            ret.val \in {NoError, APIError("RepositoryAlreadyExistsException")})

C4_NoFileMutationNoExport ==
    (mode = "run" /\ c.noPush /\ c.accessKey = "") =>
        /\ file.state \in {"absent", "prior"} /\ fileWrites = 0
        /\ env = {}

\* C4 (amended): with no-push and no access key, createDockerConfig succeeds
\* with a config that has no credential-helper binding and exports no variable;
\* run still writes that config to dockerConfigPath, replacing what was there.
C4_AuthSetupSkippedFileStillWritten ==
    (mode \in {"run", "createDockerConfig"} /\ c.noPush /\ c.accessKey = "") =>
        /\ env = {}
        /\ ret.fn = "createDockerConfig" => (ret.err = nil /\ ret.val.credHelpers = {})
        /\ file.state = "written" =>
              /\ file.credHelpers = {}
              /\ file.auths = IF c.dockerUsername = "" THEN {}
                              ELSE {<<RegistryV1, c.dockerUsername, c.dockerPassword>>}
        /\ pc \in {"createRepository", "lifecyclePolicy", "repositoryPolicy", "exec"} =>
              file.state = "written" /\ fileWrites = 1
        /\ (pc = "exited" /\ ret.fn # "WriteFile") => file.state = "written"

C4_Witness ==
    /\ mode = "run" /\ c.noPush /\ c.accessKey = "" /\ c.secretKey # ""
    /\ c.registry = "123.dkr.ecr.us-east-1.amazonaws.com" /\ c.dockerUsername = "user"
    /\ file.state = "written" /\ file.credHelpers = {} /\ env = {}
    /\ execs # <<>>

\* C5 (as claimed): in a run whose registry host is empty no backend call
\* (create repository, set lifecycle policy, set repository policy) is issued
\* and no pushing build is started.
C5_RegistryNonEmptyOnBackendCalls ==
    (mode = "run" /\ c.registry = "") =>
        /\ \A i \in DOMAIN events : events[i].op \notin BackendOps
        /\ \A j \in DOMAIN execs : execs[j].Build.NoPush

\* C6: when auth setup is needed and the registry host is empty,
\* createDockerConfig returns an error without exporting a variable, and the
\* run exits non-zero having made no SDK call and no write of the credential
\* document; createRepository with an empty registry or repo returns an error
\* without loading the AWS config or calling the backend.
C6_EmptyRegistryFailsFirst ==
    /\ (mode \in {"run", "createDockerConfig"} /\ ret.fn = "createDockerConfig"
            /\ (~c.noPush \/ c.accessKey # "") /\ c.registry = "") =>
          /\ ret.err = "registry must be specified"
          /\ env = {}
          /\ \A i \in DOMAIN events : events[i].op = "createDockerConfig"
    /\ (mode = "run" /\ pc # "createDockerConfig"
            /\ (~c.noPush \/ c.accessKey # "") /\ c.registry = "") =>
          /\ pc = "exited" /\ exitCode # 0
          /\ events = <<Invoke("createDockerConfig")>>
          /\ env = {} /\ fileWrites = 0 /\ file.state \in {"absent", "prior"}
          /\ execs = <<>>
    /\ (ret.fn = "createRepository" /\ (c.registry = "" \/ c.repo = "")) =>
          /\ ret.err = IF c.registry = "" THEN "registry must be specified"
                       ELSE "repo must be specified"
          /\ ret.val = NotCalled
          /\ \A i \in DOMAIN events :
                events[i].op \notin BackendOps \cup {"LoadDefaultConfig"}
          /\ mode = "run" => (pc = "exited" /\ exitCode # 0 /\ execs = <<>>)

C6_Witness ==
    /\ mode = "run" /\ c.noPush /\ c.accessKey # "" /\ c.secretKey # "" /\ c.registry = ""
    /\ c.set = PolicyFlags /\ file.state = "prior"
    /\ pc = "exited" /\ exitCode = 1 /\ ret.err = "registry must be specified"

C6_WitnessCreateRepository ==
    /\ mode = "createRepository" /\ c.registry = "" /\ c.repo = "app"
    /\ nCalls = MaxCalls /\ ret.err = "registry must be specified"

\* C7: in a run whose credential setup succeeded and that is past the
\* repository step, createRepository was invoked (once) exactly when push is
\* requested and create-repository is set; in every other run createRepository
\* is never invoked and no CreateRepository call reaches a backend.
C7_CreateRepositoryIffPushAndOptIn ==
    mode = "run" =>
        /\ (fileWrites = 1 /\ pc # "createRepository") =>
              (Count("createRepository") = 1 <=> (~c.noPush /\ c.createRepository))
        /\ Count("createRepository") <= 1 /\ Count("CreateRepository") <= Count("createRepository")
        /\ ~(~c.noPush /\ c.createRepository) =>
              (Count("createRepository") = 0 /\ Count("CreateRepository") = 0)
        /\ Count("createRepository") = 1 => fileWrites = 1

C7_Witness ==
    /\ mode = "run" /\ ~c.noPush /\ c.createRepository /\ c.accessKey # ""
    /\ Count("CreateRepository") = 1 /\ pc = "lifecyclePolicy"

C7_WitnessSkipped ==
    /\ mode = "run" /\ c.noPush /\ c.createRepository /\ c.accessKey # ""
    /\ Count("createRepository") = 0 /\ pc = "exited" /\ execs # <<>>

PublicHosts == {"public.ecr.aws", "public.ecr.aws/myorg", "public.ecr.awsx"}

\* C8: isRegistryPublic holds of a host exactly when the host is
\* "public.ecr.aws" or starts with it, and every CreateRepository call goes to
\* the backend so selected for the registry host, naming the repository.
C8_PublicIffPrefixedByPublicDomain ==
    /\ isRegistryPublic(c.registry) <=> PrefixedByPublicDomain(c.registry)
    /\ isRegistryPublic(c.registry) <=> c.registry \in PublicHosts
    /\ \A i \in EventsWith("CreateRepository") :
          /\ events[i].api = (IF c.registry \in PublicHosts THEN "public" ELSE "private")
          /\ events[i].api = ExpectedApi(c.registry)
          /\ events[i].repo = c.repo

C8_Witness ==
    /\ c.registry = "public.ecr.aws/myorg" /\ c.repo = "app"
    /\ \E i \in EventsWith("CreateRepository") : events[i].api = "public"
    /\ <<"public", "app">> \in backend /\ <<"private", "app">> \notin backend

C8_WitnessPrivate ==
    /\ c.registry = "public.ecr"
    /\ \E i \in EventsWith("CreateRepository") : events[i].api = "private"

PolicyCalls == EventsWith("PutLifecyclePolicy") \cup EventsWith("SetRepositoryPolicy")

\* C9: in a run, a policy upload is never invoked when its own flag is not
\* set; when its flag is set and the run gets to its step, its file is read
\* and the upload invoked, whatever the other flag, no-push and the repository
\* step were; a read or upload error exits non-zero without a build; and when
\* plugin.Exec is invoked every configured upload has returned nil before it.
C9_PolicyUploadsGatedOnOwnFlag ==
    mode = "run" =>
        /\ "lifecycle-policy" \notin c.set =>
              Count("uploadLifeCyclePolicy") = 0 /\ Count("PutLifecyclePolicy") = 0
        /\ "repository-policy" \notin c.set =>
              Count("uploadRepositoryPolicy") = 0 /\ Count("SetRepositoryPolicy") = 0
        /\ (pc \in {"repositoryPolicy", "exec"} \/ execs # <<>>) =>
              Count("PutLifecyclePolicy") = (IF "lifecycle-policy" \in c.set THEN 1 ELSE 0)
        /\ (pc = "exec" \/ execs # <<>>) =>
              Count("SetRepositoryPolicy") = (IF "repository-policy" \in c.set THEN 1 ELSE 0)
        /\ ("lifecycle-policy" \in c.set /\ fileWrites = 1
                /\ pc \notin {"createRepository", "lifecyclePolicy"}
                /\ ~(ret.fn = "createRepository" /\ ret.err # nil)) =>
              (Count("uploadLifeCyclePolicy") = 1 \/ (ret.fn = "ReadFile" /\ ret.err # nil))
        /\ ("repository-policy" \in c.set /\ fileWrites = 1
                /\ pc \notin {"createRepository", "lifecyclePolicy", "repositoryPolicy"}
                /\ ~(ret.fn \in {"createRepository", "uploadLifeCyclePolicy"} /\ ret.err # nil)) =>
              (Count("uploadRepositoryPolicy") = 1 \/ (ret.fn = "ReadFile" /\ ret.err # nil))
        /\ (ret.fn \in {"ReadFile", "uploadLifeCyclePolicy", "uploadRepositoryPolicy"}
                /\ ret.err # nil) =>
              (pc = "exited" /\ exitCode # 0 /\ execs = <<>>)
        /\ \A i \in EventsWith("plugin.Exec") : \A j \in PolicyCalls : j < i

C9_Witness ==
    /\ mode = "run" /\ ~c.noPush /\ c.createRepository /\ c.set = PolicyFlags
    /\ Count("CreateRepository") = 1
    /\ Count("PutLifecyclePolicy") = 1 /\ Count("SetRepositoryPolicy") = 1
    /\ execs # <<>>

C9_WitnessNoPushOneFlag ==
    /\ mode = "run" /\ c.noPush /\ c.set = {"repository-policy"}
    /\ Count("uploadLifeCyclePolicy") = 0 /\ Count("SetRepositoryPolicy") = 1
    /\ execs # <<>>

\* C10: in a run plugin.Exec is invoked at most once; a run that exited with
\* no step having returned an error invoked it exactly once, as its last
\* event, after the credential document was written and the gated steps were
\* done, with Build.Repo = registry "/" repo and Build.NoPush = no-push; the
\* exit code is 0 exactly when plugin.Exec returned nil.
C10_ExecOnceWithPassThrough ==
    mode = "run" =>
        /\ Len(execs) <= 1 /\ Count("plugin.Exec") = Len(execs)
        /\ (pc = "exited" /\ ~(ret.fn \in BootstrapSteps /\ ret.err # nil)) =>
              Len(execs) = 1
        /\ Len(execs) = 1 =>
              /\ execs[1].Build.Repo = c.registry \o "/" \o c.repo
              /\ execs[1].Build.NoPush = c.noPush
              /\ events[Len(events)].op = "plugin.Exec"
              /\ fileWrites = 1
              /\ Count("createRepository") = (IF ~c.noPush /\ c.createRepository THEN 1 ELSE 0)
              /\ Count("uploadLifeCyclePolicy") = (IF "lifecycle-policy" \in c.set THEN 1 ELSE 0)
              /\ Count("uploadRepositoryPolicy") = (IF "repository-policy" \in c.set THEN 1 ELSE 0)
              /\ pc = "exited" /\ ret.fn = "plugin.Exec"
              /\ exitCode = (IF ret.err = nil THEN 0 ELSE 1)
        /\ (pc = "exited" /\ exitCode = 0) => Len(execs) = 1

C10_Witness ==
    /\ mode = "run" /\ c.noPush /\ c.registry = "123.dkr.ecr.us-east-1.amazonaws.com"
    /\ c.repo = "app" /\ Len(execs) = 1
    /\ execs[1].Build.Repo = "123.dkr.ecr.us-east-1.amazonaws.com/app"
    /\ execs[1].Build.NoPush /\ exitCode = 0

C10_WitnessExecFailed ==
    /\ mode = "run" /\ ~c.noPush /\ Len(execs) = 1 /\ ~execs[1].Build.NoPush
    /\ ret.fn = "plugin.Exec" /\ ret.err # nil /\ exitCode = 1

AfterWrite == BackendOps \cup {"plugin.Exec"}

\* C11 (as claimed): every run writes the credential document exactly once,
\* before every backend call and the build.
C11_WrittenExactlyOncePerRun ==
    mode = "run" =>
        /\ fileWrites <= 1
        /\ pc = "exited" => fileWrites = 1
        /\ \A w \in EventsWith("WriteFile") : \A i \in DOMAIN events :
              events[i].op \in AfterWrite => w < i

\* C11 (amended): a run writes the credential document at most once: not at
\* all when createDockerConfig, the marshalling or the write itself fails, and
\* exactly once otherwise; the written document holds exactly the run's config
\* (nothing of the prior content) and stays so for the rest of the run; the
\* write precedes every backend call and plugin.Exec, none of which happens in
\* a run without the write.
C11_WrittenAtMostOnceBeforeBackendCalls ==
    mode = "run" =>
        /\ fileWrites <= 1 /\ Count("WriteFile") = fileWrites
        /\ pc \in {"createDockerConfig", "writeConfig"} =>
              (fileWrites = 0 /\ file.state \in {"absent", "prior"})
        /\ (pc \notin {"createDockerConfig", "writeConfig"}
                /\ ~(ret.fn \in {"createDockerConfig", "WriteFile"} /\ ret.err # nil)) =>
              fileWrites = 1
        /\ (ret.fn \in {"createDockerConfig", "WriteFile"} /\ ret.err # nil) =>
              (fileWrites = 0 /\ pc = "exited")
        /\ fileWrites = 1 =>
              file = [state |-> "written", auths |-> dockerConfig.auths,
                      credHelpers |-> dockerConfig.credHelpers]
        /\ fileWrites = 0 =>
              /\ file.state \in {"absent", "prior", "truncated"}
              /\ \A i \in DOMAIN events : events[i].op \notin AfterWrite
        /\ \A w \in EventsWith("WriteFile") : \A i \in DOMAIN events :
              events[i].op \in AfterWrite => w < i

C11_Witness ==
    /\ mode = "run" /\ fileWrites = 1 /\ pc = "exited" /\ execs # <<>>
    /\ Count("CreateRepository") = 1 /\ Count("PutLifecyclePolicy") = 1
    /\ file.state = "written"
    /\ file.credHelpers = {<<"public.ecr.aws", "ecr-login">>,
                           <<"123.dkr.ecr.us-east-1.amazonaws.com", "ecr-login">>}

C11_WitnessNotWritten ==
    /\ mode = "run" /\ pc = "exited" /\ fileWrites = 0
    /\ ret.fn = "createDockerConfig" /\ file.state = "prior"

CreateDockerConfigReturned == mode \in {"run", "createDockerConfig"} /\ ret.fn = "createDockerConfig"

SetupWanted == (~c.noPush \/ c.accessKey # "") /\ c.registry # ""

BothKeys == {<<"AWS_ACCESS_KEY_ID", c.accessKey>>, <<"AWS_SECRET_ACCESS_KEY", c.secretKey>>}

\* C12: when auth setup is needed and the registry host is non-empty, a
\* createDockerConfig that returned nil has exported both keys under
\* AWS_ACCESS_KEY_ID and AWS_SECRET_ACCESS_KEY if both are non-empty and has
\* exported nothing otherwise; it returns an error only when a Setenv failed,
\* and then no config is returned, at most the access key has been exported by
\* that call, and a run exits non-zero without writing the document or
\* building; with only one key supplied it succeeds and exports nothing.
C12_KeysExportedIffBothGiven ==
    (CreateDockerConfigReturned /\ SetupWanted) =>
        /\ ret.err = nil =>
              env = (IF c.accessKey # "" /\ c.secretKey # "" THEN BothKeys ELSE {})
        /\ ((c.accessKey = "") # (c.secretKey = "")) => (ret.err = nil /\ env = {})
        /\ ret.err # nil =>
              /\ c.accessKey # "" /\ c.secretKey # ""
              /\ ret.err \in {"failed to set AWS_ACCESS_KEY_ID environment variable",
                              "failed to set AWS_SECRET_ACCESS_KEY environment variable"}
              /\ ret.val = nil
              /\ nCalls <= 1 => env \subseteq {<<"AWS_ACCESS_KEY_ID", c.accessKey>>}
              /\ mode = "run" =>
                    /\ pc = "exited" /\ exitCode # 0
                    /\ dockerConfig = nil /\ fileWrites = 0 /\ execs = <<>>

C12_Witness ==
    /\ CreateDockerConfigReturned /\ SetupWanted /\ mode = "run"
    /\ c.noPush /\ c.accessKey # "" /\ c.secretKey # ""
    /\ ret.err = nil /\ env = BothKeys /\ Cardinality(env) = 2

C12_WitnessSetenvFailed ==
    /\ mode = "run" /\ pc = "exited" /\ exitCode = 1
    /\ ret.err = "failed to set AWS_SECRET_ACCESS_KEY environment variable"
    /\ env = {<<"AWS_ACCESS_KEY_ID", "AKIA">>}

C12_WitnessOneKey ==
    /\ CreateDockerConfigReturned /\ SetupWanted
    /\ c.accessKey # "" /\ c.secretKey = "" /\ ret.err = nil /\ env = {}

EcrLogin(host) == <<host, "ecr-login">>

\* C13: a createDockerConfig that needed auth setup and returned nil returns a
\* config whose credential-helper bindings are exactly "public.ecr.aws" and
\* the target registry host, each bound to "ecr-login", one binding per host
\* (a single binding when the target host is "public.ecr.aws"); when auth
\* setup is not needed it returns a config without credential-helper bindings.
C13_CredHelperBindings ==
    CreateDockerConfigReturned =>
        /\ ((~c.noPush \/ c.accessKey # "") /\ ret.err = nil) =>
              /\ c.registry # ""
              /\ ret.val.credHelpers = {EcrLogin("public.ecr.aws"), EcrLogin(c.registry)}
              /\ \A g, h \in ret.val.credHelpers : g[1] = h[1] => g = h
              /\ Cardinality(ret.val.credHelpers) =
                    (IF c.registry = "public.ecr.aws" THEN 1 ELSE 2)
              /\ \A a \in ret.val.auths : a[1] \notin {"public.ecr.aws", c.registry}
        /\ ~(~c.noPush \/ c.accessKey # "") =>
              (ret.err = nil /\ ret.val.credHelpers = {})

C13_Witness ==
    /\ CreateDockerConfigReturned /\ ~c.noPush /\ ret.err = nil
    /\ c.registry = "123.dkr.ecr.us-east-1.amazonaws.com" /\ c.dockerUsername = "user"
    /\ EcrLogin("public.ecr.aws") \in ret.val.credHelpers
    /\ EcrLogin("123.dkr.ecr.us-east-1.amazonaws.com") \in ret.val.credHelpers

C13_WitnessPublicTarget ==
    /\ CreateDockerConfigReturned /\ c.noPush /\ c.accessKey # "" /\ ret.err = nil
    /\ c.registry = "public.ecr.aws" /\ ret.val.credHelpers = {EcrLogin("public.ecr.aws")}

C13_WitnessNotNeeded ==
    /\ CreateDockerConfigReturned /\ c.noPush /\ c.accessKey = "" /\ c.dockerUsername = "user"
    /\ ret.err = nil /\ ret.val.credHelpers = {} /\ ret.val.auths # {}

====
